---- MODULE Spec2Model ----
(***************************************************************************)
(* A state-machine model of aimlapi-rs: the chat registry (ChatManager),   *)
(* the per-chat completion exchange (Chat), and the save.json persistence  *)
(* of the AIMLAPI instance.                                                *)
(*                                                                         *)
(* The repository holds two generations of the registry/session design:    *)
(*   design = "chat"     src/src/chat.rs + src/src/lib.rs                  *)
(*                       (history is always a VecDeque)                    *)
(*   design = "managers" src/src/managers/mod.rs                           *)
(*                       (history is an Option<VecDeque>; the free         *)
(*                       functions chat::send_completion and               *)
(*                       chat::add_history it calls are not in src/)       *)
(***************************************************************************)
EXTENDS Integers, Sequences, FiniteSets, TLC

VARIABLES
    design,        \* which generation of the code is built
    pc,            \* "idle" | "awaiting" | "crashed" | "down"
    local_save,    \* AIMLAPI.local_save
    api_key,       \* AIMLAPI.api_key : Option<String>, <<>> or <<key>>
    models,        \* AIMLAPI.models
    current_chat,  \* ChatManager.current_chat : Uuid
    chats,         \* ChatManager.chats : HashMap<Uuid, Chat>
    store,         \* the file save.json: <<>> when absent, else <<document>>
    request,       \* the POST in flight: <<>> or <<[target, auth, body]>>
    ncalls,        \* number of calls made on the instance so far (bounded)
    last           \* the last call made and what it returned

vars == <<design, pc, local_save, api_key, models, current_chat, chats,
          store, request, ncalls, last>>

-----------------------------------------------------------------------------
(* Bounds of the model *)

\* Uuid::new_v4() draws from 1..NumUuids
NumUuids == 2
\* at most MaxCalls calls are made in one behaviour
MaxCalls == 5

-----------------------------------------------------------------------------
(* Program constants *)

\* Uuid::nil()
Nil == 0
\* StatusCode::CREATED
CREATED == 201
\* Chat::new: max_tokens
DefaultMaxTokens == 512

Uuids == 0..NumUuids
ModelNames == {"m1", "m2"}
Catalogs == {<<"m1">>, <<"m2", "m1">>}
Contents == {"q1"}
GoodKey == "key"
BadKey == "bad\nkey"
ApiKeys == {GoodKey, BadKey}
Titles == {"t1"}
Statuses == {200, CREATED, 500}
ErrorText == "An error occured while sending the message"

None == <<>>
Some(x) == <<x>>

-----------------------------------------------------------------------------
(* Message / MessageRole (chat.rs) *)

MessageRole == {"USER", "SYSTEM", "AI"}

\* impl Into<String> for MessageRole
RoleInto(role) ==
    CASE role = "USER" -> "user"
      [] role = "SYSTEM" -> "system"
      [] role = "AI" -> "placeholder"

\* impl From<&String> for MessageRole
RoleFrom(value) ==
    CASE value = "user" -> "USER"
      [] value = "system" -> "SYSTEM"
      [] OTHER -> "AI"

\* Message::new
Message_new(role, content) == [role |-> RoleInto(role), content |-> content]

\* Message::get_role
get_role(message) == RoleFrom(message.role)

\* VecDeque::push_front
push_front(q, x) == <<x>> \o q

\* VecDeque::retain with the closure |message| message.get_role() != AI
RECURSIVE retain_not_ai(_)
retain_not_ai(q) ==
    IF q = <<>> THEN <<>>
    ELSE IF get_role(Head(q)) # "AI"
         THEN <<Head(q)>> \o retain_not_ai(Tail(q))
         ELSE retain_not_ai(Tail(q))

\* the messages a caller may submit
Submissions == {Message_new(r, c) : r \in MessageRole, c \in Contents}

-----------------------------------------------------------------------------
(* serde_json::Value *)

JNull == [t |-> "null"]
JBool(b) == [t |-> "bool", b |-> b]
JNum(n) == [t |-> "num", n |-> n]
JFloat(x) == [t |-> "float", x |-> x]
JStr(s) == [t |-> "str", s |-> s]
JArr(a) == [t |-> "arr", a |-> a]
\* an object is its set of <<key, value>> members, keys unique
JObj(o) == [t |-> "obj", o |-> o]

HasKey(v, key) == v.t = "obj" /\ \E p \in v.o : p[1] = key
Member(v, key) == (CHOOSE p \in v.o : p[1] = key)[2]
Keys(v) == {p[1] : p \in v.o}

\* the response bodies the remote endpoint may return
BodyGarbage == "<html>"
BodyNull == "null"
BodyNumber == "42"
BodyArray == "[]"
BodyNoChoices == "{}"
BodyChoicesEmpty == "{\"choices\":[]}"
BodyChoicesNotArray == "{\"choices\":5}"
BodyChoiceNumber == "{\"choices\":[5]}"
BodyChoiceNull == "{\"choices\":[null]}"
BodyNoMessage == "{\"choices\":[{}]}"
BodyMessageNumber == "{\"choices\":[{\"message\":5}]}"
BodyNoContent == "{\"choices\":[{\"message\":{}}]}"
BodyContentNumber == "{\"choices\":[{\"message\":{\"content\":7}}]}"
BodyContentNull == "{\"choices\":[{\"message\":{\"content\":null}}]}"
BodyContentString == "{\"choices\":[{\"message\":{\"content\":\"r1\"}}]}"

Bodies ==
    {BodyGarbage, BodyNull, BodyNumber, BodyArray, BodyNoChoices,
     BodyChoicesEmpty, BodyChoicesNotArray, BodyChoiceNumber, BodyChoiceNull,
     BodyNoMessage, BodyMessageNumber, BodyNoContent, BodyContentNumber,
     BodyContentNull, BodyContentString}

JChoices(x) == JObj({<<"choices", x>>})
JMessage(x) == JChoices(JArr(<<JObj({<<"message", x>>})>>))

\* serde_json::from_str::<Value> on the bodies above: [ok, v]
from_str(text) ==
    CASE text = BodyGarbage -> [ok |-> FALSE, v |-> JNull]
      [] text = BodyNull -> [ok |-> TRUE, v |-> JNull]
      [] text = BodyNumber -> [ok |-> TRUE, v |-> JNum(42)]
      [] text = BodyArray -> [ok |-> TRUE, v |-> JArr(<<>>)]
      [] text = BodyNoChoices -> [ok |-> TRUE, v |-> JObj({})]
      [] text = BodyChoicesEmpty -> [ok |-> TRUE, v |-> JChoices(JArr(<<>>))]
      [] text = BodyChoicesNotArray -> [ok |-> TRUE, v |-> JChoices(JNum(5))]
      [] text = BodyChoiceNumber ->
            [ok |-> TRUE, v |-> JChoices(JArr(<<JNum(5)>>))]
      [] text = BodyChoiceNull -> [ok |-> TRUE, v |-> JChoices(JArr(<<JNull>>))]
      [] text = BodyNoMessage -> [ok |-> TRUE, v |-> JChoices(JArr(<<JObj({})>>))]
      [] text = BodyMessageNumber -> [ok |-> TRUE, v |-> JMessage(JNum(5))]
      [] text = BodyNoContent -> [ok |-> TRUE, v |-> JMessage(JObj({}))]
      [] text = BodyContentNumber ->
            [ok |-> TRUE, v |-> JMessage(JObj({<<"content", JNum(7)>>}))]
      [] text = BodyContentNull ->
            [ok |-> TRUE, v |-> JMessage(JObj({<<"content", JNull>>}))]
      [] text = BodyContentString ->
            [ok |-> TRUE, v |-> JMessage(JObj({<<"content", JStr("r1")>>}))]

\* json[key] in a mutable context (the receiver of take(&mut self)):
\* IndexMut -> <str as Index>::index_or_insert. Null becomes an object,
\* a missing key is inserted as Null, any other kind of value panics.
index_or_insert_str(v, key) ==
    IF v.t = "null" THEN [panic |-> FALSE, v |-> JNull]
    ELSE IF v.t = "obj"
         THEN [panic |-> FALSE,
               v |-> IF HasKey(v, key) THEN Member(v, key) ELSE JNull]
         ELSE [panic |-> TRUE, v |-> JNull]

\* json[i] in a mutable context: <usize as Index>::index_or_insert.
\* Panics unless the value is an array holding index i.
index_or_insert_usize(v, i) ==
    IF v.t = "arr" /\ i < Len(v.a)
    THEN [panic |-> FALSE, v |-> v.a[i + 1]]
    ELSE [panic |-> TRUE, v |-> JNull]

\* json["choices"].take()[0].take()["message"].take()["content"].take()
ExtractContent(json) ==
    LET c == index_or_insert_str(json, "choices")
        z == IF c.panic THEN c ELSE index_or_insert_usize(c.v, 0)
        m == IF z.panic THEN z ELSE index_or_insert_str(z.v, "message")
    IN  IF m.panic THEN m ELSE index_or_insert_str(m.v, "content")

\* HeaderValue::from_str: visible ASCII only, so a key holding a line
\* break is rejected
HeaderValue_from_str_ok(key) == key # BadKey

-----------------------------------------------------------------------------
(* Chat *)

DefaultParams ==
    [max_tokens |-> DefaultMaxTokens, stream |-> FALSE,
     frequency_penalty |-> "0.7", top_p |-> "0.7", temperature |-> "0.7"]

\* Uuid as Display / Serialize, and its parse
UuidToString(u) == "00000000-0000-4000-8000-00000000000" \o ToString(u)
StringToUuid(text) == CHOOSE u \in Uuids : UuidToString(u) = text
IsUuidString(text) == \E u \in Uuids : UuidToString(u) = text

\* chat.rs Chat::new(uuid, model): titled "Chat {uuid}", empty history
Chat_new(uuid, model) ==
    [title |-> [some |-> TRUE, text |-> "Chat " \o UuidToString(uuid)],
     model |-> model,
     params |-> DefaultParams,
     history |-> [on |-> TRUE, q |-> <<>>]]

\* a faulty variant: a new chat of the managers generation accumulates
\* history from the start
Managers_Chat_new_Accumulating(model) ==
    [title |-> [some |-> FALSE, text |-> ""],
     model |-> model,
     params |-> DefaultParams,
     history |-> [on |-> TRUE, q |-> <<>>]]

\* managers/mod.rs Chat::new(model): no title, no history
Managers_Chat_new(model) ==
    [title |-> [some |-> FALSE, text |-> ""],
     model |-> model,
     params |-> DefaultParams,
     history |-> [on |-> FALSE, q |-> <<>>]]

\* HashMap::new / insert / remove / contains_key
EmptyMap == [k \in {} |-> Chat_new(Nil, "m1")]
\* a faulty variant: the insert drops every other entry
MapInsert_Only(m, k, v) == [x \in {k} |-> v]
MapInsert(m, k, v) == [x \in DOMAIN m \cup {k} |-> IF x = k THEN v ELSE m[x]]
\* a faulty variant: the removal empties the map
MapRemove_Clear(m, k) == [x \in {} |-> m[x]]

MapRemove(m, k) == [x \in DOMAIN m \ {k} |-> m[x]]

\* ChatManager::chat_exists
chat_exists(chat_uuid) == chat_uuid \in DOMAIN chats

\* ChatManager::get_chat: the uuid of the chat handed out, or None
get_chat(chat_uuid) == IF ~chat_exists(chat_uuid) THEN None ELSE Some(chat_uuid)

\* ChatManager::get_current_chat: the uuid of the current chat, or None
get_current_chat == IF ~chat_exists(current_chat) THEN None ELSE Some(current_chat)

\* the chats map with the history queue of chat id replaced
\* a faulty variant: the history is written to every chat of the registry
WithHistory_EveryChat(id, q) == [k \in DOMAIN chats |-> [chats[k] EXCEPT !.history.q = q]]
WithHistory(id, q) == [chats EXCEPT ![id].history.q = q]

\* the record of a call: its name, the uuid it was about, what it returned
\* (or "pending", "panic"), and the marker as it was when the call was made
Ret(op, id, ret) == last' = [op |-> op, id |-> id, ret |-> ret, was |-> current_chat]

-----------------------------------------------------------------------------
(* #[derive(Serialize, Deserialize)]: the instance as a JSON document *)

SerMessage(m) == JObj({<<"role", JStr(m.role)>>, <<"content", JStr(m.content)>>})
\* a faulty variant: the history is written back to front
SerHistory_Reversed(q) == JArr([i \in 1..Len(q) |-> SerMessage(q[Len(q) + 1 - i])])
SerHistory(q) == JArr([i \in 1..Len(q) |-> SerMessage(q[i])])
SerModel(name) == JObj({<<"name", JStr(name)>>})

SerChat(c) ==
    JObj({<<"title", JStr(c.title.text)>>,
          <<"model", SerModel(c.model)>>,
          <<"max_tokens", JNum(c.params.max_tokens)>>,
          <<"stream", JBool(c.params.stream)>>,
          <<"frequency_penalty", JFloat(c.params.frequency_penalty)>>,
          <<"top_p", JFloat(c.params.top_p)>>,
          <<"temperature", JFloat(c.params.temperature)>>,
          <<"history", SerHistory(c.history.q)>>})

SerChatManager(cur, map) ==
    JObj({<<"current_chat", JStr(UuidToString(cur))>>,
          <<"chats", JObj({<<UuidToString(k), SerChat(map[k])>> : k \in DOMAIN map})>>})

SerOption(o) == IF o = None THEN JNull ELSE JStr(o[1])

\* serde_json::to_string_pretty(self)
SerInstance ==
    JObj({<<"local_save", JBool(local_save)>>,
          <<"api_key", SerOption(api_key)>>,
          <<"models", JArr([i \in 1..Len(models) |-> SerModel(models[i])])>>,
          <<"chat_manager", SerChatManager(current_chat, chats)>>})

\* what is left in save.json when File::create has truncated it and
\* write_all fails: not a JSON document
PartialFile == [t |-> "partial"]

IsObjWith(v, keys) == v.t = "obj" /\ \A k \in keys : HasKey(v, k)
IsStr(v) == v.t = "str"

DeMessageOk(v) ==
    /\ IsObjWith(v, {"role", "content"})
    /\ IsStr(Member(v, "role")) /\ IsStr(Member(v, "content"))
DeMessage(v) == [role |-> Member(v, "role").s, content |-> Member(v, "content").s]

DeModelOk(v) == IsObjWith(v, {"name"}) /\ IsStr(Member(v, "name"))
DeModel(v) == Member(v, "name").s

DeChatOk(v) ==
    /\ IsObjWith(v, {"title", "model", "max_tokens", "stream",
                     "frequency_penalty", "top_p", "temperature", "history"})
    /\ IsStr(Member(v, "title"))
    /\ DeModelOk(Member(v, "model"))
    /\ Member(v, "max_tokens").t = "num"
    /\ Member(v, "stream").t = "bool"
    /\ Member(v, "frequency_penalty").t = "float"
    /\ Member(v, "top_p").t = "float"
    /\ Member(v, "temperature").t = "float"
    /\ Member(v, "history").t = "arr"
    /\ \A i \in 1..Len(Member(v, "history").a) : DeMessageOk(Member(v, "history").a[i])
DeChat(v) ==
    [title |-> [some |-> TRUE, text |-> Member(v, "title").s],
     model |-> DeModel(Member(v, "model")),
     params |-> [max_tokens |-> Member(v, "max_tokens").n,
                 stream |-> Member(v, "stream").b,
                 frequency_penalty |-> Member(v, "frequency_penalty").x,
                 top_p |-> Member(v, "top_p").x,
                 temperature |-> Member(v, "temperature").x],
     history |-> [on |-> TRUE,
                  q |-> [i \in 1..Len(Member(v, "history").a) |->
                            DeMessage(Member(v, "history").a[i])]]]

DeChatManagerOk(v) ==
    /\ IsObjWith(v, {"current_chat", "chats"})
    /\ IsStr(Member(v, "current_chat"))
    /\ IsUuidString(Member(v, "current_chat").s)
    /\ Member(v, "chats").t = "obj"
    /\ \A p \in Member(v, "chats").o : IsUuidString(p[1]) /\ DeChatOk(p[2])
DeCurrentChat(v) == StringToUuid(Member(v, "current_chat").s)
DeChats(v) ==
    [k \in {StringToUuid(key) : key \in Keys(Member(v, "chats"))} |->
        DeChat(Member(Member(v, "chats"), UuidToString(k)))]

\* serde_json::from_str::<AIMLAPI>
DeInstanceOk(v) ==
    /\ IsObjWith(v, {"local_save", "models", "chat_manager"})
    /\ Member(v, "local_save").t = "bool"
    /\ HasKey(v, "api_key") => Member(v, "api_key").t \in {"null", "str"}
    /\ Member(v, "models").t = "arr"
    /\ \A i \in 1..Len(Member(v, "models").a) : DeModelOk(Member(v, "models").a[i])
    /\ DeChatManagerOk(Member(v, "chat_manager"))
DeApiKey(v) ==
    IF HasKey(v, "api_key") /\ Member(v, "api_key").t = "str"
    THEN Some(Member(v, "api_key").s) ELSE None
DeModels(v) ==
    [i \in 1..Len(Member(v, "models").a) |-> DeModel(Member(v, "models").a[i])]

-----------------------------------------------------------------------------
(* Initial state: a first run. start() found no save.json and returned a    *)
(* fresh instance around ChatManager::new().                                *)

Init ==
    /\ design \in {"chat", "managers"}
    /\ pc = "idle"
    /\ local_save = TRUE
    /\ api_key = None
    /\ models = <<"m1">>
    /\ current_chat = Nil
    /\ chats = EmptyMap
    /\ store = <<>>
    /\ request = <<>>
    /\ ncalls = 0
    /\ last = [op |-> "start", id |-> Nil, ret |-> "Ok", was |-> Nil]

\* the variables of the AIMLAPI instance other than the registry
UnchangedConfig == UNCHANGED <<design, local_save, api_key, models>>
UnchangedRegistry == UNCHANGED <<current_chat, chats>>
UnchangedIO == UNCHANGED <<store, request>>

\* one more call is made, while the bound allows it
Call == ncalls < MaxCalls /\ ncalls' = ncalls + 1

-----------------------------------------------------------------------------
(* ChatManager (chat.rs 20-108, managers/mod.rs 18-105) *)

\* Chat::new of the generation built
NewChat(chat_uuid, model) ==
    IF design = "chat" THEN Chat_new(chat_uuid, model) ELSE Managers_Chat_new(model)

\* a faulty variant: every create makes its chat current
MarkerAfterCreate_Always(cur, chat_uuid) == chat_uuid

\* a faulty variant: a create makes its chat current only on an empty registry
MarkerAfterCreate_OnEmpty(cur, chat_uuid) ==
    IF cur = Nil /\ DOMAIN chats = {} THEN chat_uuid ELSE cur

\* create_new_chat: the marker after the insert
MarkerAfterCreate(cur, chat_uuid) == IF cur = Nil THEN chat_uuid ELSE cur

\* a faulty variant: the removal forgets to clear the marker
MarkerAfterRemove_Kept(cur, chat_uuid) == cur

\* remove_chat: the marker after the removal
MarkerAfterRemove(cur, chat_uuid) == IF cur = chat_uuid THEN Nil ELSE cur

\* Uuid::new_v4(): any non-nil value; nothing checks it against the keys in use
create_new_chat(model) ==
    /\ pc = "idle" /\ Call
    /\ \E chat_uuid \in Uuids \ {Nil} :
        /\ chats' = MapInsert(chats, chat_uuid, NewChat(chat_uuid, model))
        /\ current_chat' = MarkerAfterCreate(current_chat, chat_uuid)
        /\ Ret("create_new_chat", chat_uuid, "Ok")
    /\ UNCHANGED pc
    /\ UnchangedConfig /\ UnchangedIO

remove_chat(chat_uuid) ==
    /\ pc = "idle" /\ Call
    /\ IF ~chat_exists(chat_uuid)
       THEN /\ Ret("remove_chat", chat_uuid, "NotFound")
            /\ UnchangedRegistry
       ELSE /\ chats' = MapRemove(chats, chat_uuid)
            /\ current_chat' = MarkerAfterRemove(current_chat, chat_uuid)
            /\ Ret("remove_chat", chat_uuid, "Ok")
    /\ UNCHANGED pc
    /\ UnchangedConfig /\ UnchangedIO

\* a faulty variant: the marker can be moved while an exchange is in flight
set_current_chat_Interleaved(chat_uuid) ==
    /\ pc \in {"idle", "awaiting"} /\ Call
    /\ IF ~chat_exists(chat_uuid)
       THEN /\ Ret("set_current_chat", chat_uuid, "NotFound")
            /\ UnchangedRegistry
       ELSE /\ current_chat' = chat_uuid
            /\ Ret("set_current_chat", chat_uuid, "Ok")
            /\ UNCHANGED chats
    /\ UNCHANGED pc
    /\ UnchangedConfig /\ UnchangedIO

\* a faulty variant: the marker is moved without the existence check
set_current_chat_Unchecked(chat_uuid) ==
    /\ pc = "idle" /\ Call
    /\ current_chat' = chat_uuid
    /\ Ret("set_current_chat", chat_uuid, "Ok")
    /\ UNCHANGED <<pc, chats>>
    /\ UnchangedConfig /\ UnchangedIO

set_current_chat(chat_uuid) ==
    /\ pc = "idle" /\ Call
    /\ IF ~chat_exists(chat_uuid)
       THEN /\ Ret("set_current_chat", chat_uuid, "NotFound")
            /\ UnchangedRegistry
       ELSE /\ current_chat' = chat_uuid
            /\ Ret("set_current_chat", chat_uuid, "Ok")
            /\ UNCHANGED chats
    /\ UNCHANGED pc
    /\ UnchangedConfig /\ UnchangedIO

-----------------------------------------------------------------------------
(* managers/mod.rs Chat::with_title, Chat::with_history, on a chat got     *)
(* through get_chat                                                        *)

with_title(chat_uuid, title) ==
    /\ pc = "idle" /\ design = "managers" /\ Call
    /\ get_chat(chat_uuid) # None
    /\ chats' = [chats EXCEPT ![chat_uuid].title = [some |-> TRUE, text |-> title]]
    /\ Ret("with_title", chat_uuid, "Ok")
    /\ UNCHANGED <<pc, current_chat>>
    /\ UnchangedConfig /\ UnchangedIO

\* a faulty variant: entries already held are kept
with_history_Keeping(chat_uuid) ==
    /\ pc = "idle" /\ design = "managers" /\ Call
    /\ get_chat(chat_uuid) # None
    /\ chats' = [chats EXCEPT ![chat_uuid].history = [on |-> TRUE, q |-> @.q]]
    /\ Ret("with_history", chat_uuid, "Ok")
    /\ UNCHANGED <<pc, current_chat>>
    /\ UnchangedConfig /\ UnchangedIO

with_history(chat_uuid) ==
    /\ pc = "idle" /\ design = "managers" /\ Call
    /\ get_chat(chat_uuid) # None
    /\ chats' = [chats EXCEPT ![chat_uuid].history = [on |-> TRUE, q |-> <<>>]]
    /\ Ret("with_history", chat_uuid, "Ok")
    /\ UNCHANGED <<pc, current_chat>>
    /\ UnchangedConfig /\ UnchangedIO

-----------------------------------------------------------------------------
(* lib.rs AIMLAPI::set_api_key, AIMLAPI::local_save *)

set_api_key(key) ==
    /\ pc = "idle" /\ design = "chat" /\ Call
    /\ api_key' = Some(key)
    /\ Ret("set_api_key", Nil, "Ok")
    /\ UNCHANGED <<design, pc, local_save, models>>
    /\ UnchangedRegistry /\ UnchangedIO

set_local_save(save) ==
    /\ pc = "idle" /\ design = "chat" /\ Call
    /\ local_save' = save
    /\ Ret("local_save", Nil, "Ok")
    /\ UNCHANGED <<design, pc, api_key, models>>
    /\ UnchangedRegistry /\ UnchangedIO

-----------------------------------------------------------------------------
(* The completion exchange *)

\* what the transport hands back for one POST: send() fails, or a status
\* arrives and then text() fails, or a status and a body arrive. Every body
\* is tried with status 201; the other statuses come with a well-formed
\* completion and with a page that is not JSON.
Outcomes ==
    {[net |-> "send_error", status |-> 0, body |-> ""]}
    \cup {[net |-> "ok", status |-> CREATED, body |-> b] : b \in Bodies}
    \cup {[net |-> "ok", status |-> st, body |-> b] :
            st \in Statuses \ {CREATED}, b \in {BodyContentString, BodyGarbage}}
    \cup {[net |-> "text_error", status |-> st, body |-> ""] : st \in {CREATED, 500}}

\* the json!({...}) body of the POST
RequestBody(chat, messages) ==
    [model |-> chat.model,
     max_tokens |-> chat.params.max_tokens,
     stream |-> chat.params.stream,
     frequency_penalty |-> chat.params.frequency_penalty,
     top_p |-> chat.params.top_p,
     temperature |-> chat.params.temperature,
     messages |-> messages]

\* the call frame of an exchange: the chat it runs on, the message
\* submitted, the history as it stood when the call was made, and the POST
Frame(id, msg, before, key, messages) ==
    [target |-> id, msg |-> msg, before |-> before,
     url |-> "https://api.aimlapi.com/chat/completions",
     auth |-> "Bearer " \o key,
     body |-> RequestBody(chats[id], messages)]

\* chat.rs 164: self.history.push_front(msg)
HistoryAfterSubmit(q, msg) == push_front(q, msg)

\* a faulty variant: the history is sent as it is, AI entries included
OutboundMessages_Unfiltered(q) == q

\* chat.rs 166-168: the clone of the history, AI entries dropped
OutboundMessages(q) == retain_not_ai(q)

\* a faulty variant: any 2xx status is taken as success
StatusIsSuccess_Any2xx(status) == status \in 200..299

\* chat.rs 186: the status test
StatusIsSuccess(status) == status = CREATED

\* chat.rs 179-201, from the await of send() on: what
\* internal_send_message returns for an outcome, or "panic"
internal_send_message_result(o) ==
    IF o.net = "send_error" THEN "TransportError"
    ELSE IF ~StatusIsSuccess(o.status) THEN "UnexpectedStatus"
    ELSE IF o.net = "text_error" THEN "TransportError"
    ELSE LET parsed == from_str(o.body) IN
         IF ~parsed.ok THEN "ParseError"
         ELSE LET message == ExtractContent(parsed.v) IN
              IF message.panic THEN "panic"
              ELSE IF message.v.t # "str" THEN "MalformedResponse"
              ELSE "Ok"

\* message.as_str().unwrap()
ReplyText(o) == ExtractContent(from_str(o.body).v).v.s

\* a faulty variant: the reply is appended, not pushed to the front
HistoryAfterReply_Back(q, text) == Append(q, Message_new("AI", text))

\* chat.rs 198-199: the reply pushed on success
HistoryAfterReply(q, text) == push_front(q, Message_new("AI", text))

\* a faulty variant: the error entry is pushed behind the submitted message
HistoryAfterError_Behind(q) ==
    <<Head(q), Message_new("AI", ErrorText)>> \o Tail(q)

\* chat.rs 146-151: the entry Chat::send_message pushes when res.is_err()
HistoryAfterError(q) == push_front(q, Message_new("AI", ErrorText))

\* chat.rs 156-184: internal_send_message up to the await of send()
internal_send_message(id, key, msg) ==
    LET q == chats[id].history.q IN
    IF ~HeaderValue_from_str_ok(key)
    THEN \* HeaderValue::from_str(..).unwrap() panics, before the push
         /\ pc' = "crashed"
         /\ Ret("send_message", id, "panic")
         /\ UNCHANGED <<chats, request>>
    ELSE /\ chats' = WithHistory(id, HistoryAfterSubmit(q, msg))
         /\ request' = <<Frame(id, msg, q, key,
                               OutboundMessages(HistoryAfterSubmit(q, msg)))>>
         /\ pc' = "awaiting"
         /\ Ret("send_message", id, "pending")

\* a faulty variant: the current chat is looked up before the key is tested
send_message_LookupFirst(msg) ==
    /\ pc = "idle" /\ design = "chat" /\ Call
    /\ IF get_current_chat = None
       THEN /\ Ret("send_message", Nil, "NoCurrentChat")
            /\ UNCHANGED <<pc, chats, request>>
       ELSE IF api_key = None
       THEN /\ Ret("send_message", Nil, "MissingCredential")
            /\ UNCHANGED <<pc, chats, request>>
       ELSE internal_send_message(current_chat, api_key[1], msg)
    /\ UnchangedConfig /\ UNCHANGED <<current_chat, store>>

\* lib.rs 85-102 AIMLAPI::send_message, up to the await
send_message(msg) ==
    /\ pc = "idle" /\ design = "chat" /\ Call
    /\ IF api_key = None
       THEN /\ Ret("send_message", Nil, "MissingCredential")
            /\ UNCHANGED <<pc, chats, request>>
       ELSE IF get_current_chat = None
       THEN /\ Ret("send_message", Nil, "NoCurrentChat")
            /\ UNCHANGED <<pc, chats, request>>
       ELSE internal_send_message(current_chat, api_key[1], msg)
    /\ UnchangedConfig /\ UNCHANGED <<current_chat, store>>

\* the rest of Chat::send_message once the POST resolves with outcome o
send_message_resolves(o) ==
    /\ pc = "awaiting" /\ design = "chat"
    /\ LET id == request[1].target
           q == chats[id].history.q
           res == internal_send_message_result(o)
       IN  /\ Ret("send_message", id, res)
           /\ IF res = "panic"
              THEN pc' = "crashed" /\ UNCHANGED chats
              ELSE /\ pc' = "idle"
                   /\ chats' = WithHistory(id,
                        IF res = "Ok" THEN HistoryAfterReply(q, ReplyText(o))
                        ELSE HistoryAfterError(q))
    /\ request' = <<>>
    /\ UnchangedConfig /\ UNCHANGED <<current_chat, store, ncalls>>

-----------------------------------------------------------------------------
(* The exchange of the managers generation. Chat::send_completion          *)
(* (managers/mod.rs 162-181) calls chat::send_completion and               *)
(* chat::add_history, which are not among the sources: both follow the     *)
(* specification of the exchange (section 4.2, steps 1-8).                  *)

\* chat::add_history: a front push when the chat accumulates history
add_history(h, completion) ==
    IF h.on THEN [h EXCEPT !.q = push_front(h.q, completion)] ELSE h

\* step 2: the outbound list, from the history after the push of step 1
send_completion_messages(h, msg) ==
    IF h.on THEN retain_not_ai(add_history(h, msg).q) ELSE <<msg>>

\* step 6: choices[0].message.content, Null when the path is not there
PathContent(json) ==
    LET choices == IF HasKey(json, "choices") THEN Member(json, "choices") ELSE JNull
        first == IF choices.t = "arr" /\ Len(choices.a) > 0 THEN choices.a[1] ELSE JNull
        message == IF HasKey(first, "message") THEN Member(first, "message") ELSE JNull
    IN  IF HasKey(message, "content") THEN Member(message, "content") ELSE JNull

\* steps 5-6: what chat::send_completion returns for an outcome
send_completion_result(o) ==
    IF o.net = "send_error" THEN "TransportError"
    ELSE IF o.status # CREATED THEN "UnexpectedStatus"
    ELSE IF o.net = "text_error" THEN "TransportError"
    ELSE IF ~from_str(o.body).ok THEN "ParseError"
    ELSE IF PathContent(from_str(o.body).v).t # "str" THEN "MalformedResponse"
    ELSE "Ok"

\* managers/mod.rs 108-124 ChatManager::send_current_chat_completion and
\* Chat::send_completion, up to the await
send_current_chat_completion(key, msg) ==
    /\ pc = "idle" /\ design = "managers" /\ Call
    /\ IF get_current_chat = None
       THEN /\ Ret("send_completion", Nil, "NoCurrentChat")
            /\ UNCHANGED <<pc, chats, request>>
       ELSE LET h == chats[current_chat].history IN
               /\ chats' = [chats EXCEPT ![current_chat].history = add_history(h, msg)]
            /\ request' = <<Frame(current_chat, msg, h.q, key,
                                  send_completion_messages(h, msg))>>
               /\ pc' = "awaiting"
            /\ Ret("send_completion", current_chat, "pending")
    /\ UnchangedConfig /\ UNCHANGED <<current_chat, store>>

\* managers/mod.rs 162-181: the rest of Chat::send_completion once the
\* POST resolves with outcome o
send_completion_resolves(o) ==
    /\ pc = "awaiting" /\ design = "managers"
    /\ LET id == request[1].target
           h == chats[id].history
           res == send_completion_result(o)
       IN  /\ Ret("send_completion", id, res)
           /\ chats' = [chats EXCEPT ![id].history =
                IF res = "Ok"
                THEN add_history(h, Message_new("AI", PathContent(from_str(o.body).v).s))
                ELSE add_history(h, Message_new("AI", ErrorText))]
    /\ pc' = "idle"
    /\ request' = <<>>
    /\ UnchangedConfig /\ UNCHANGED <<current_chat, store, ncalls>>

-----------------------------------------------------------------------------
(* Persistence (lib.rs) *)

\* a faulty variant: the file is written whatever local_save says
save_IgnoresFlag ==
    /\ pc = "idle" /\ design = "chat" /\ Call
    /\ \E io \in {"ok", "create_fails", "write_fails"} :
          /\ store' = CASE io = "ok" -> <<SerInstance>>
                        [] io = "create_fails" -> store
                        [] io = "write_fails" -> <<PartialFile>>
          /\ Ret("save", Nil, IF io = "ok" THEN "Ok" ELSE "IoError")
    /\ UNCHANGED <<pc, request>>
    /\ UnchangedConfig /\ UnchangedRegistry

\* lib.rs 109-118 AIMLAPI::save. File::create may fail (nothing written),
\* and write_all may fail after File::create has truncated the file.
save ==
    /\ pc = "idle" /\ design = "chat" /\ Call
    /\ IF ~local_save
       THEN Ret("save", Nil, "Ok") /\ UNCHANGED store
       ELSE \E io \in {"ok", "create_fails", "write_fails"} :
              /\ store' = CASE io = "ok" -> <<SerInstance>>
                            [] io = "create_fails" -> store
                            [] io = "write_fails" -> <<PartialFile>>
              /\ Ret("save", Nil, IF io = "ok" THEN "Ok" ELSE "IoError")
    /\ UNCHANGED <<pc, request>>
    /\ UnchangedConfig /\ UnchangedRegistry

\* the instance variables when start() hands back no instance
NoInstance ==
    /\ local_save' = FALSE
    /\ api_key' = None
    /\ models' = <<>>
    /\ current_chat' = Nil
    /\ chats' = EmptyMap

\* a faulty variant: a save.json that does not deserialize is passed over
\* and a fresh instance is returned
start_FallsBack(fetched) ==
    /\ pc \in {"idle", "crashed", "down"} /\ design = "chat" /\ Call
    /\ IF fetched = None
       THEN /\ pc' = "down"
            /\ NoInstance
            /\ Ret("start", Nil, "FetchError")
       ELSE IF store # <<>> /\ DeInstanceOk(store[1])
       THEN /\ pc' = "idle"
            /\ local_save' = Member(store[1], "local_save").b
            /\ api_key' = DeApiKey(store[1])
            /\ models' = fetched[1]
            /\ current_chat' = DeCurrentChat(Member(store[1], "chat_manager"))
            /\ chats' = DeChats(Member(store[1], "chat_manager"))
            /\ Ret("start", Nil, "Ok")
       ELSE /\ pc' = "idle"
            /\ local_save' = TRUE
            /\ api_key' = None
            /\ models' = fetched[1]
            /\ current_chat' = Nil
            /\ chats' = EmptyMap
            /\ Ret("start", Nil, "Ok")
    /\ request' = <<>>
    /\ UNCHANGED <<design, store>>

\* lib.rs 32-52 AIMLAPI::start, in a new run of the process. fetched is
\* what get_models returns: None when the request or its parse fails.
start(fetched) ==
    /\ pc \in {"idle", "crashed", "down"} /\ design = "chat" /\ Call
    /\ IF fetched = None
       THEN /\ pc' = "down"
            /\ NoInstance
            /\ Ret("start", Nil, "FetchError")
       ELSE IF store # <<>>
       THEN IF ~DeInstanceOk(store[1])
            THEN \* serde_json::from_str(&buf).unwrap() panics
                 /\ pc' = "crashed"
                 /\ NoInstance
                 /\ Ret("start", Nil, "panic")
            ELSE /\ pc' = "idle"
                 /\ local_save' = Member(store[1], "local_save").b
                 /\ api_key' = DeApiKey(store[1])
                 /\ models' = fetched[1]
                 /\ current_chat' = DeCurrentChat(Member(store[1], "chat_manager"))
                 /\ chats' = DeChats(Member(store[1], "chat_manager"))
                 /\ Ret("start", Nil, "Ok")
       ELSE /\ pc' = "idle"
            /\ local_save' = TRUE
            /\ api_key' = None
            /\ models' = fetched[1]
            /\ current_chat' = Nil
            /\ chats' = EmptyMap
            /\ Ret("start", Nil, "Ok")
    /\ request' = <<>>
    /\ UNCHANGED <<design, store>>

-----------------------------------------------------------------------------

Next ==
    \/ \E model \in ModelNames : create_new_chat(model)
    \/ \E chat_uuid \in Uuids : remove_chat(chat_uuid)
    \/ \E chat_uuid \in Uuids : set_current_chat(chat_uuid)
    \/ \E chat_uuid \in Uuids, title \in Titles : with_title(chat_uuid, title)
    \/ \E chat_uuid \in Uuids : with_history(chat_uuid)
    \/ \E key \in ApiKeys : set_api_key(key)
    \/ \E save_flag \in BOOLEAN : set_local_save(save_flag)
    \/ \E msg \in Submissions : send_message(msg)
    \/ \E o \in Outcomes : send_message_resolves(o)
    \/ \E msg \in Submissions : send_current_chat_completion(GoodKey, msg)
    \/ \E o \in Outcomes : send_completion_resolves(o)
    \/ save
    \/ \E fetched \in {None} \cup {Some(c) : c \in Catalogs} : start(fetched)

Spec == Init /\ [][Next]_vars

-----------------------------------------------------------------------------
(* Vocabulary of the properties *)

\* the POST of the exchange in flight resolves with outcome o
Resolves(o) == send_message_resolves(o) \/ send_completion_resolves(o)

\* the frame of the exchange in flight, and the history it runs on
InFlight == request[1]
TargetHistory == chats[InFlight.target].history

IsSend(op) == op \in {"send_message", "send_completion"}
FailureRets == {"TransportError", "UnexpectedStatus", "ParseError", "MalformedResponse"}

ErrorEntry == [role |-> "placeholder", content |-> ErrorText]
ReplyEntry(text) == [role |-> "placeholder", content |-> text]

\* outcomes by kind, in the terms of the remote API contract
TransportFailures ==
    {o \in Outcomes : o.net = "send_error" \/ (o.net = "text_error" /\ o.status = 201)}
OtherStatus == {o \in Outcomes : o.net # "send_error" /\ o.status # 201}
Created == {o \in Outcomes : o.net = "ok" /\ o.status = 201}
InvalidJson == {o \in Created : o.body = BodyGarbage}
ContentNotString == {o \in Created : o.body \in {BodyContentNumber, BodyContentNull}}
ContentString == {o \in Created : o.body = BodyContentString}
\* valid JSON in which choices[0].message.content is absent, not
\* reachable, or not a string
ContentMissing ==
    {o \in Created : o.body \notin {BodyGarbage, BodyContentString}}

-----------------------------------------------------------------------------
(* C1 *)

\* C1: the current-session marker is nil or a key of the chats map, in
\* every reachable state (create, remove, set_current, sends, save and
\* reload included).
C1_MarkerNilOrLive == current_chat = Nil \/ current_chat \in DOMAIN chats

\* a second chat was created and the current one then removed: the marker
\* was cleared in that step while another chat remains
C1_Witness ==
    /\ last.op = "remove_chat" /\ last.ret = "Ok"
    /\ last.was = last.id
    /\ current_chat = Nil
    /\ DOMAIN chats # {}

-----------------------------------------------------------------------------
(* C2 *)

\* the failure the caller is handed for each kind of failing outcome
C2_Underlying(o) ==
    CASE o \in TransportFailures -> "TransportError"
      [] o \in OtherStatus -> "UnexpectedStatus"
      [] o \in InvalidJson -> "ParseError"
      [] o \in ContentNotString -> "MalformedResponse"

\* C2: when a chat accumulates history and its exchange fails (transport
\* failure, a status other than 201, a body that is not JSON, a content
\* field that is not a string), the history becomes the synthetic AI
\* error entry, then the submitted message, then the history as it stood
\* before the call (two entries longer), and the call returns that failure.
C2_FailedExchangeAddsTwo ==
    [][pc = "awaiting" =>
       \A o \in TransportFailures \cup OtherStatus \cup InvalidJson \cup ContentNotString :
         (Resolves(o) /\ TargetHistory.on) =>
            /\ chats'[InFlight.target].history.q
                  = <<ErrorEntry, InFlight.msg>> \o InFlight.before
            /\ Len(chats'[InFlight.target].history.q) = Len(InFlight.before) + 2
            /\ last'.ret = C2_Underlying(o)
            /\ pc' = "idle"]_vars

\* a failed exchange has returned on a chat that already held entries
C2_Witness ==
    /\ pc = "idle" /\ IsSend(last.op) /\ last.ret \in FailureRets
    /\ last.id \in DOMAIN chats
    /\ Len(chats[last.id].history.q) >= 4
    /\ chats[last.id].history.q[1] = ErrorEntry

-----------------------------------------------------------------------------
(* C3 *)

\* C3: when a chat accumulates history and its exchange succeeds (status
\* 201, a string at choices[0].message.content), the history becomes an AI
\* entry holding the reply text, then the submitted message, then the
\* history as it stood before the call, entry for entry, two places back.
C3_SuccessfulExchangeAddsTwo ==
    [][pc = "awaiting" =>
       \A o \in ContentString :
         (Resolves(o) /\ TargetHistory.on) =>
            LET after == chats'[InFlight.target].history.q IN
            /\ Len(after) = Len(InFlight.before) + 2
            /\ after[1] = ReplyEntry("r1")
            /\ after[2] = InFlight.msg
            /\ \A i \in 1..Len(InFlight.before) : after[i + 2] = InFlight.before[i]
            /\ last'.ret = "Ok"]_vars

\* a successful exchange has returned on a chat that already held entries
C3_Witness ==
    /\ pc = "idle" /\ IsSend(last.op) /\ last.ret = "Ok"
    /\ last.id \in DOMAIN chats
    /\ Len(chats[last.id].history.q) >= 4
    /\ chats[last.id].history.q[1] = ReplyEntry("r1")

-----------------------------------------------------------------------------
(* C4 *)

\* C4: a 201 response whose body is valid JSON without a string at
\* choices[0].message.content makes the send return MalformedResponse
\* (the call returns, the process does not panic), and no AI entry
\* carrying response content is added: the history gains only the error
\* entry.
C4_MalformedResponseReturned ==
    [][pc = "awaiting" =>
       \A o \in ContentMissing :
         Resolves(o) =>
            /\ pc' = "idle"
            /\ last'.ret = "MalformedResponse"
            /\ TargetHistory.on =>
                 chats'[InFlight.target].history.q
                    = <<ErrorEntry>> \o TargetHistory.q]_vars

-----------------------------------------------------------------------------
(* C5 *)

C5_UserOrSystem(m) == m.role \in {"user", "system"}

\* C5: while the POST of a chat that accumulates history is in flight, its
\* messages list is the history (the submitted message at the front of what
\* the history was), without its AI-role entries and otherwise in the same
\* order; it holds no AI-role entry, and a user or system submission is its
\* first element.
C5_PayloadIsHistoryWithoutAI ==
    (pc = "awaiting" /\ TargetHistory.on) =>
        LET messages == InFlight.body.messages IN
        /\ TargetHistory.q = <<InFlight.msg>> \o InFlight.before
        /\ messages = SelectSeq(TargetHistory.q, C5_UserOrSystem)
        /\ \A i \in 1..Len(messages) : get_role(messages[i]) # "AI"
        /\ C5_UserOrSystem(InFlight.msg) => messages[1] = InFlight.msg

\* a POST is in flight whose history holds a reply or error entry between
\* two submitted messages
C5_Witness ==
    /\ pc = "awaiting" /\ TargetHistory.on
    /\ Len(InFlight.body.messages) >= 2
    /\ Len(TargetHistory.q) > Len(InFlight.body.messages)

-----------------------------------------------------------------------------
(* C6 *)

\* C6: an exchange returns success only for status 201: whenever the
\* outcome is anything but a body delivered with status 201 the send fails,
\* and for every other status, 200 with a well-formed body included, it
\* fails with UnexpectedStatus; the history gains the error entry, not a
\* reply.
C6_Only201Succeeds ==
    [][pc = "awaiting" =>
       \A o \in Outcomes \ Created :
         Resolves(o) =>
            /\ last'.ret \in FailureRets
            /\ o.net = "ok" => last'.ret = "UnexpectedStatus"
            /\ pc' = "idle"
            /\ TargetHistory.on =>
                 chats'[InFlight.target].history.q
                    = <<ErrorEntry>> \o TargetHistory.q]_vars

\* an exchange has failed on its status and left the error entry
C6_Witness ==
    /\ pc = "idle" /\ IsSend(last.op) /\ last.ret = "UnexpectedStatus"
    /\ last.id \in DOMAIN chats
    /\ Len(chats[last.id].history.q) >= 2
    /\ chats[last.id].history.q[1] = ErrorEntry

-----------------------------------------------------------------------------
(* C7 *)

\* C7: whatever the API key and the message, a send on a chat that
\* accumulates history has the submitted message at position 0 of the
\* history as soon as the call is under way, before anything that can fail
\* or abort.
C7_SubmittedMessagePushedFirst ==
    [][\A msg \in Submissions :
         (/\ send_message(msg) \/ send_current_chat_completion(GoodKey, msg)
          /\ design = "chat" => api_key # None
          /\ get_current_chat # None
          /\ chats[current_chat].history.on) =>
            chats'[current_chat].history.q
               = <<msg>> \o chats[current_chat].history.q]_vars

-----------------------------------------------------------------------------
(* C8 *)

\* C8: create_new_chat always returns an identifier, now a key of the
\* map; it makes that chat current exactly when no current chat was set,
\* and leaves a set marker as it was.
C8_CreateSetsCurrentOnlyIfUnset ==
    [][\A model \in ModelNames :
         create_new_chat(model) =>
            /\ last'.ret = "Ok"
            /\ last'.id \in DOMAIN chats'
            /\ current_chat = Nil => current_chat' = last'.id
            /\ current_chat # Nil => current_chat' = current_chat]_vars

\* a further create has left another chat current
C8_Witness ==
    /\ last.op = "create_new_chat"
    /\ last.was # Nil /\ current_chat = last.was /\ current_chat # last.id
    /\ get_current_chat = Some(current_chat)

-----------------------------------------------------------------------------
(* C9 *)

\* a step of the registry in hand (start builds a new one from the store)
C9_SameRegistry == pc = "idle" /\ last'.op # "start"

\* removing the current chat unsets the marker and promotes no other chat
C9_RemovalUnsets ==
    \A chat_uuid \in Uuids :
        (remove_chat(chat_uuid) /\ chat_exists(chat_uuid) /\ current_chat = chat_uuid) =>
            current_chat' = Nil /\ get_current_chat' = None

\* C9 as stated: once the current chat is removed get_current_chat stays
\* None until a successful set_current_chat, or a create on an empty
\* registry; a create while other chats exist does not change that.
C9_AbsentUntilSetOrCreateOnEmpty ==
    [][C9_SameRegistry =>
         /\ C9_RemovalUnsets
         /\ (get_current_chat = None /\ get_current_chat' # None) =>
               \/ last'.op = "set_current_chat" /\ last'.ret = "Ok"
               \/ last'.op = "create_new_chat" /\ DOMAIN chats = {}]_vars

\* C9 as amended: once the current chat is removed get_current_chat stays
\* None until a successful set_current_chat or any create_new_chat (which
\* makes its chat current whenever the marker is unset, other chats or
\* not); the removal promotes no other chat, and no other operation on
\* the registry makes get_current_chat return a chat again.
C9_AbsentUntilSetOrCreate ==
    [][C9_SameRegistry =>
         /\ C9_RemovalUnsets
         /\ (get_current_chat = None /\ get_current_chat' # None) =>
               \/ last'.op = "set_current_chat" /\ last'.ret = "Ok"
               \/ last'.op = "create_new_chat"
         /\ (get_current_chat = None /\ last'.op = "create_new_chat") =>
               get_current_chat' = Some(last'.id)]_vars

\* the current chat was removed while another remained, and a later
\* create (not on an empty registry) made its chat current
C9_Witness ==
    /\ last.op = "create_new_chat"
    /\ last.was = Nil
    /\ current_chat = last.id
    /\ Cardinality(DOMAIN chats) = 2

-----------------------------------------------------------------------------
(* C10 *)

\* C10: remove_chat succeeds exactly when the identifier is a key. On
\* success that entry alone is deleted, every other chat is as before, and
\* the marker changes only if it referred to the identifier (it is then
\* nil). On an absent identifier it fails with NotFound and the map and the
\* marker are as before.
C10_RemoveExactlyThatChat ==
    [][\A chat_uuid \in Uuids :
         remove_chat(chat_uuid) =>
            IF chat_uuid \in DOMAIN chats
            THEN /\ last'.ret = "Ok"
                 /\ chat_uuid \notin DOMAIN chats'
                 /\ DOMAIN chats' = DOMAIN chats \ {chat_uuid}
                 /\ \A k \in DOMAIN chats' : chats'[k] = chats[k]
                 /\ current_chat' = IF current_chat = chat_uuid THEN Nil ELSE current_chat
            ELSE /\ last'.ret = "NotFound"
                 /\ chats' = chats
                 /\ current_chat' = current_chat]_vars

\* a chat that was not current has been removed: the current one remains
C10_Witness ==
    /\ last.op = "remove_chat" /\ last.ret = "Ok"
    /\ last.was # Nil /\ last.was # last.id /\ current_chat = last.was
    /\ get_current_chat = Some(current_chat)

-----------------------------------------------------------------------------
(* C11 *)

\* C11: set_current_chat succeeds exactly when the identifier is a key of
\* the map. On success the marker is that identifier and the map is as
\* before; on an absent identifier (nil included) it fails with NotFound
\* and the marker and the map are as before.
C11_SetCurrentIffPresent ==
    [][\A chat_uuid \in Uuids :
         set_current_chat(chat_uuid) =>
            IF chat_uuid \in DOMAIN chats
            THEN /\ last'.ret = "Ok"
                 /\ current_chat' = chat_uuid
                 /\ chats' = chats
            ELSE /\ last'.ret = "NotFound"
                 /\ current_chat' = current_chat
                 /\ chats' = chats]_vars

\* set_current_chat on the nil identifier failed while a chat was current:
\* that chat is still the current one
C11_Witness ==
    /\ last.op = "set_current_chat" /\ last.ret = "NotFound"
    /\ last.id = Nil
    /\ last.was # Nil /\ current_chat = last.was
    /\ get_current_chat = Some(last.was)

-----------------------------------------------------------------------------
(* C12 *)

-----------------------------------------------------------------------------
(* C13 *)

\* the call changes nothing of the instance and posts nothing
C13_NothingChanged ==
    /\ chats' = chats
    /\ current_chat' = current_chat
    /\ request' = <<>> /\ request = <<>>
    /\ pc' = "idle"
    /\ UNCHANGED <<local_save, api_key, models, store>>

\* C13: a send in the current chat made with no API key set, or with no
\* current chat, returns a failure, posts nothing and leaves every history,
\* the map and the marker as they were (no error entry is pushed). With no
\* key set the failure is the missing key, whether a current chat exists or
\* not: the key is tested before the lookup.
C13_RejectedSendChangesNothing ==
    [][\A msg \in Submissions :
         /\ (send_message(msg) /\ (api_key = None \/ get_current_chat = None)) =>
               /\ last'.ret \in {"MissingCredential", "NoCurrentChat"}
               /\ C13_NothingChanged
         /\ (send_message(msg) /\ api_key = None) =>
               last'.ret = "MissingCredential"
         /\ (send_message(msg) /\ api_key # None /\ get_current_chat = None) =>
               last'.ret = "NoCurrentChat"
         /\ (send_current_chat_completion(GoodKey, msg) /\ get_current_chat = None) =>
               /\ last'.ret = "NoCurrentChat"
               /\ C13_NothingChanged]_vars

\* a send was made with neither a key nor a current chat, while a chat
\* exists: the missing key is what is reported
C13_Witness ==
    /\ last.op = "send_message" /\ last.ret = "MissingCredential"
    /\ api_key = None
    /\ get_current_chat = None
    /\ DOMAIN chats # {}

-----------------------------------------------------------------------------
(* C14 *)

\* C14: when save() has just written an instance whose local_save is true
\* and start() then runs with a fetched catalog, the instance returned has
\* the chats (title, model, parameters and history of each, entry for
\* entry, roles included), the marker and the local_save flag of the one
\* saved, and its model list is the catalog fetched, whatever list was
\* saved.
C14_SaveThenStartRoundTrip ==
    [][\A c \in Catalogs :
         (/\ last.op = "save" /\ last.ret = "Ok" /\ local_save
          /\ start(Some(c))) =>
            /\ last'.ret = "Ok"
            /\ chats' = chats
            /\ current_chat' = current_chat
            /\ local_save' = local_save
            /\ models' = c]_vars

\* an instance whose current chat holds an exchange (message and AI reply
\* or error entry) was saved and loaded again, with a catalog fetched that
\* differs from the list in save.json
C14_Witness ==
    /\ last.op = "start" /\ last.ret = "Ok"
    /\ ncalls = MaxCalls
    /\ store # <<>> /\ DeInstanceOk(store[1])
    /\ DeModels(store[1]) # models
    /\ current_chat # Nil
    /\ chats = DeChats(Member(store[1], "chat_manager"))
    /\ \E i \in 1..Len(chats[current_chat].history.q) :
          get_role(chats[current_chat].history.q[i]) = "AI"

-----------------------------------------------------------------------------
(* C15 *)

\* start() handed back no instance: the run ended in state p
C15_NoInstanceReturned(p) ==
    /\ pc' = p
    /\ chats' = EmptyMap /\ current_chat' = Nil /\ models' = <<>>

-----------------------------------------------------------------------------
(* C16 *)

\* save.json holds the current instance and nothing else
C16_StoreIsCurrentInstance ==
    /\ store' = <<SerInstance>>
    /\ DeInstanceOk(store'[1])
    /\ DeChats(Member(store'[1], "chat_manager")) = chats
    /\ DeCurrentChat(Member(store'[1], "chat_manager")) = current_chat
    /\ Member(store'[1], "local_save").b = local_save

\* C16 as stated: with local_save false save() returns Ok and save.json is
\* as it was (not created when absent, not touched when present); with
\* local_save true save() leaves save.json holding the serialization of the
\* current instance in place of whatever it held.
C16_SaveReplacesStore ==
    [][save =>
         IF ~local_save
         THEN last'.ret = "Ok" /\ store' = store
         ELSE C16_StoreIsCurrentInstance]_vars

\* C16 as amended: with local_save false save() returns Ok and save.json is
\* as it was. With local_save true save() either returns Ok, and save.json
\* then holds the serialization of the current instance in place of
\* whatever it held, or returns the I/O error of File::create or write_all,
\* and save.json is then as it was (create failed) or truncated and not
\* completely written (write failed). In no case is the instance changed.
C16_SaveWritesOrFails ==
    [][save =>
         /\ UNCHANGED <<chats, current_chat, local_save, api_key, models>>
         /\ IF ~local_save
            THEN last'.ret = "Ok" /\ store' = store
            ELSE \/ last'.ret = "Ok" /\ C16_StoreIsCurrentInstance
                 \/ /\ last'.ret = "IoError"
                    /\ store' \in {store, <<PartialFile>>}]_vars

\* save() was called with local_save false on a registry holding a chat,
\* while save.json holds an earlier instance: the file still holds it
C16_Witness ==
    /\ last.op = "save" /\ last.ret = "Ok"
    /\ ~local_save
    /\ DOMAIN chats # {}
    /\ store # <<>> /\ store # <<SerInstance>> /\ store # <<PartialFile>>

-----------------------------------------------------------------------------
(* C17 *)

\* a step of a completion exchange: the call up to the POST (or up to the
\* panic on the key), or the rest of it once the POST has resolved
C17_ExchangeStep ==
    \/ /\ pc = "idle"
       /\ \E msg \in Submissions :
             send_message(msg) \/ send_current_chat_completion(GoodKey, msg)
       /\ last'.ret \in {"pending", "panic"}
    \/ /\ pc = "awaiting"
       /\ \E o \in Outcomes : Resolves(o)

\* C17: an exchange, whatever its outcome, changes at most the history of
\* the chat it runs on. The model, parameters and title of that chat, the
\* set of keys of the map, the marker and every other chat (history
\* included) are as before.
C17_ExchangeChangesOnlyItsHistory ==
    [][C17_ExchangeStep =>
         /\ DOMAIN chats' = DOMAIN chats
         /\ current_chat' = current_chat
         /\ \A k \in DOMAIN chats :
               IF k = last'.id
               THEN /\ chats'[k].model = chats[k].model
                    /\ chats'[k].params = chats[k].params
                    /\ chats'[k].title = chats[k].title
               ELSE chats'[k] = chats[k]]_vars

\* an exchange on the current chat has failed and left its two entries,
\* while a second chat exists
C17_Witness ==
    /\ IsSend(last.op) /\ last.ret \in FailureRets
    /\ current_chat = last.id
    /\ Len(chats[last.id].history.q) = 2
    /\ Cardinality(DOMAIN chats) = 2

-----------------------------------------------------------------------------
(* C18 *)

\* Option::None of Chat.history
C18_NoHistory == [on |-> FALSE, q |-> <<>>]

\* C18: in the managers generation a chat is created without history, and
\* as long as with_history is not called on it every send posts a messages
\* list holding the submitted message alone and leaves the history absent,
\* when the call is made and when it resolves, successfully or not: neither
\* the message, the reply nor the error entry is kept.
C18_NoHistoryIsSingleTurn ==
    [][/\ \A model \in ModelNames :
            (design = "managers" /\ create_new_chat(model)) =>
               chats'[last'.id].history = C18_NoHistory
       /\ \A msg \in Submissions :
            (/\ send_current_chat_completion(GoodKey, msg)
             /\ last'.ret = "pending"
             /\ ~chats[current_chat].history.on) =>
               /\ request'[1].body.messages = <<msg>>
               /\ chats'[current_chat].history = C18_NoHistory
       /\ (pc = "awaiting" /\ design = "managers" /\ ~TargetHistory.on) =>
            \A o \in Outcomes :
               Resolves(o) => chats'[InFlight.target].history = C18_NoHistory]_vars

\* two exchanges have run on a chat that has no history, the second of
\* them failing: the history is still absent
C18_Witness ==
    /\ design = "managers"
    /\ last.op = "send_completion" /\ last.ret \in FailureRets
    /\ ncalls = 3
    /\ DOMAIN chats = {last.id}
    /\ chats[last.id].history = C18_NoHistory

-----------------------------------------------------------------------------
(* C19 *)

-----------------------------------------------------------------------------
(* C20 *)

\* Some(VecDeque::new()) of Chat.history
C20_EmptyHistory == [on |-> TRUE, q |-> <<>>]

\* C20: with_history leaves the chat with a history that is present and
\* empty, whether it had none or one holding entries; the model, the
\* parameters and the title of the chat, every other chat and the marker
\* are as before; and a second with_history directly after the first
\* changes nothing.
C20_WithHistoryResets ==
    [][\A chat_uuid \in Uuids :
         with_history(chat_uuid) =>
            /\ chats'[chat_uuid].history = C20_EmptyHistory
            /\ chats'[chat_uuid].model = chats[chat_uuid].model
            /\ chats'[chat_uuid].params = chats[chat_uuid].params
            /\ chats'[chat_uuid].title = chats[chat_uuid].title
            /\ DOMAIN chats' = DOMAIN chats
            /\ \A k \in DOMAIN chats \ {chat_uuid} : chats'[k] = chats[k]
            /\ current_chat' = current_chat
            /\ (last.op = "with_history" /\ last.id = chat_uuid) => chats' = chats]_vars

\* with_history has been called on a chat created without history, next to
\* a chat that still has none
C20_Witness ==
    /\ last.op = "with_history"
    /\ ncalls = 4
    /\ Cardinality(DOMAIN chats) = 2
    /\ chats[last.id].history = C20_EmptyHistory
    /\ \A k \in DOMAIN chats \ {last.id} : ~chats[k].history.on

====
